---- MODULE Spec2Model ----
(***************************************************************************)
(* Model of the blitter registry and Surface (src/blitter/blitter.h), the  *)
(* road accessor GetAnyRoadBits (road_map.cpp), the sq command line        *)
(* (3rdparty/squirrel/sq/sq.c) and the airport chunk handler table         *)
(* (saveload/airport_sl.cpp).                                              *)
(***************************************************************************)
EXTENDS Integers, Sequences, FiniteSets, TLC

VARIABLES
    \* ---- active blitter (blitter.h:239-257) ----
    registered,       \* names of the blitters that can be instantiated
    current_blitter,  \* ttd_unique_ptr<Blitter> current_blitter
    autodetected,     \* static bool Blitter::autodetected
    live,             \* blitter instances that have been constructed and not destroyed
    select_ret,       \* value returned by the most recent Blitter::select
    select_name,      \* argument of the most recent Blitter::select
    nselect,          \* number of Blitter::select calls so far
    get_ret,          \* value returned by the most recent Blitter::get
    \* ---- sq command line (sq.c:76-173) ----
    argc, argv,       \* parameters of getargs; argv[argc] is the null pointer
    sq_pc,            \* position inside getargs
    arg,              \* int arg
    compiles_only,    \* int compiles_only
    output,           \* char *output
    debuginfo,        \* sq_enabledebuginfo(v,1) has been called
    filename,         \* const char *filename
    ARGS,             \* the ARGS array created in the root table
    sq_ret,           \* return value of getargs
    loaded,           \* file handed to sqstd_loadfile
    load_ok,          \* sqstd_loadfile succeeded
    executed,         \* file handed to sqstd_dofile
    written,          \* file handed to sqstd_writeclosuretofile
    max_read,         \* highest index at which argv has been read
    printed,          \* what has been printed
    \* ---- GetAnyRoadBits (road_map.cpp) ----
    tile,             \* the map array contents of the queried tile
    rt,               \* RoadType rt
    straight_tunnel_bridge_entrance,
    road_ret,         \* returned RoadBits
    road_pc,
    \* ---- Blitter::AllocateSprite (blitter.h:98-111) ----
    sprite,           \* const SpriteLoader::Sprite *sprite
    extra,            \* size_t extra
    sizeofT,          \* sizeof(T)
    alloc_calls,      \* sizes the allocator has been asked for, in order
    heap,             \* blocks handed out by the allocator
    sprite_ret,       \* returned T *
    sprite_pc,
    \* ---- airport chunk handlers (airport_sl.cpp) ----
    _airport_mngr,    \* mapping of the airport override manager
    _airporttile_mngr,\* mapping of the airport tile override manager
    ch,               \* position of the walk in _airport_chunk_handlers
    visited,          \* ids of the handlers the walk has called
    dumper,           \* chunks written so far
    chunk_pc,
    \* ---- Blitter::Surface (blitter.h:113-237) ----
    surface,          \* the Surface object: ptr, width, height, pitch
    created,          \* the arguments create was called with
    pixels,           \* contents of the pixel buffer at ptr
    last              \* the last surface operation and what it returned

bvars == <<registered, current_blitter, autodetected, live, select_ret,
           select_name, nselect, get_ret>>

\* A null Blitter pointer.
NULL == [name |-> "NULL", id |-> 0]

\* ------------------------------------------------------------------------
\* Active blitter
\* ------------------------------------------------------------------------

MaxSelects == 3

Dummy == "null"

\* Blitter variants, best first; the dummy blitter is the last resort.
Preference == <<"32bpp-anim", "8bpp-optimized", Dummy>>

Backends == {Preference[i] : i \in DOMAIN Preference}

\* Names a caller may pass, including names of no blitter at all.
Names == Backends \cup {"nonexistent-name", ""}

\* Automatic choice: the first registered variant in order of preference.
autodetect(reg) ==
    LET idx == CHOOSE i \in DOMAIN Preference :
                   /\ Preference[i] \in reg
                   /\ \A j \in DOMAIN Preference : j < i => Preference[j] \notin reg
    IN Preference[idx]

\* Mutant: a lookup that fails yields no blitter instead of the fallback.
select_nofallback(name) ==
    /\ nselect < MaxSelects
    /\ nselect' = nselect + 1
    /\ select_name' = name
    /\ IF name \in registered
         THEN /\ current_blitter' = [name |-> name, id |-> nselect + 1]
              /\ live' = {current_blitter'}
              /\ autodetected' = FALSE
         ELSE /\ current_blitter' = NULL
              /\ live' = {}
              /\ autodetected' = autodetected
    /\ select_ret' = current_blitter'
    /\ UNCHANGED <<registered, get_ret>>

\* Blitter::select (name)
select(name) ==
    /\ nselect < MaxSelects
    /\ nselect' = nselect + 1
    /\ select_name' = name
    /\ IF name \in registered
         THEN /\ current_blitter' = [name |-> name, id |-> nselect + 1]
              /\ autodetected' = FALSE
         ELSE /\ current_blitter' = [name |-> autodetect(registered), id |-> nselect + 1]
              /\ autodetected' = TRUE
    /\ live' = {current_blitter'}      \* the unique_ptr destroys the previous one
    /\ select_ret' = current_blitter'
    /\ UNCHANGED <<registered, get_ret>>

\* Mutant: get hands out nothing.
get_null == NULL

\* Blitter::get (void)
get == current_blitter

\* A caller reads the active blitter.
Get ==
    /\ get_ret' = get
    /\ get_ret' # get_ret
    /\ UNCHANGED <<registered, current_blitter, autodetected, live, select_ret,
                   select_name, nselect>>

BlitterInit ==
    /\ registered \in {r \in SUBSET Backends : Dummy \in r}
    /\ current_blitter = NULL
    /\ autodetected = FALSE
    /\ live = {}
    /\ select_ret = NULL
    /\ select_name = ""
    /\ nselect = 0
    /\ get_ret = NULL

Select == \E name \in Names : select(name)

\* ------------------------------------------------------------------------
\* sq: getargs
\* ------------------------------------------------------------------------

qvars == <<argc, argv, sq_pc, arg, compiles_only, output, debuginfo, filename,
           ARGS, sq_ret, loaded, load_ok, executed, written, max_read, printed>>

MaxArgs == 4

\* A null char pointer; strings are sequences of characters.
NullStr == <<"NULL">>

\* Arguments a command line is built from.
ArgTokens == { <<"-", "c">>, <<"-", "o">>, <<"-", "d">>, <<"-", "v">>,
               <<"-", "h">>, <<"-", "x">>, <<"-">>, <<"s">>, <<"a">> }

ProgName == <<"s", "q">>

OutCnut == <<"o", "u", "t", ".", "c", "n", "u", "t">>

_INTERACTIVE == "_INTERACTIVE"
_DONE == "_DONE"

\* s[i] of a C string (0-based), the terminator past the last character.
CharAt(str, i) == IF i < Len(str) THEN str[i + 1] ELSE "NUL"

Max(a, b) == IF a > b THEN a ELSE b

SqIdle ==
    /\ argc = 0 /\ argv = <<>> /\ sq_pc = "idle" /\ arg = 0
    /\ compiles_only = 0 /\ output = NullStr /\ debuginfo = FALSE
    /\ filename = NullStr /\ ARGS = <<>> /\ sq_ret = "none"
    /\ loaded = NullStr /\ load_ok = FALSE /\ executed = NullStr
    /\ written = NullStr /\ max_read = 0 /\ printed = <<>>

SqInit ==
    /\ \E n \in 0..MaxArgs : \E args \in [1..n -> ArgTokens] :
          /\ argc = n + 1
          /\ argv = [i \in 0..(n + 1) |->
                        IF i = 0 THEN ProgName
                        ELSE IF i <= n THEN args[i] ELSE NullStr]
    /\ sq_pc = "start" /\ arg = 0
    /\ compiles_only = 0 /\ output = NullStr /\ debuginfo = FALSE
    /\ filename = NullStr /\ ARGS = <<>> /\ sq_ret = "none"
    /\ loaded = NullStr /\ load_ok = FALSE /\ executed = NullStr
    /\ written = NullStr /\ max_read = 0 /\ printed = <<>>

\* if(argc>1) { int arg=1 ... }
Start ==
    /\ sq_pc = "start"
    /\ argc > 1
    /\ arg' = 1
    /\ sq_pc' = "options"
    /\ UNCHANGED <<argc, argv, compiles_only, output, debuginfo, filename, ARGS,
                   sq_ret, loaded, load_ok, executed, written, max_read, printed>>

\* argc <= 1: return _INTERACTIVE
NoArgs ==
    /\ sq_pc = "start"
    /\ ~(argc > 1)
    /\ sq_ret' = _INTERACTIVE
    /\ sq_pc' = "done"
    /\ UNCHANGED <<argc, argv, arg, compiles_only, output, debuginfo, filename,
                   ARGS, loaded, load_ok, executed, written, max_read, printed>>

\* The loop is entered on an argument that starts with '-' and has c as
\* its second character.
AtOption(c) ==
    /\ sq_pc = "options"
    /\ arg < argc
    /\ CharAt(argv[arg], 0) = "-"
    /\ CharAt(argv[arg], 1) = c

\* case 'd'
OptD ==
    /\ AtOption("d")
    /\ debuginfo' = TRUE
    /\ arg' = arg + 1
    /\ max_read' = Max(max_read, arg)
    /\ UNCHANGED <<argc, argv, sq_pc, compiles_only, output, filename, ARGS,
                   sq_ret, loaded, load_ok, executed, written, printed>>

\* case 'c'
OptC ==
    /\ AtOption("c")
    /\ compiles_only' = 1
    /\ arg' = arg + 1
    /\ max_read' = Max(max_read, arg)
    /\ UNCHANGED <<argc, argv, sq_pc, output, debuginfo, filename, ARGS,
                   sq_ret, loaded, load_ok, executed, written, printed>>

\* case 'o': if(arg < argc) { arg++; output = argv[arg]; }  and the arg++
\* that ends the iteration
OptO ==
    /\ AtOption("o")
    /\ IF arg < argc
         THEN /\ output' = argv[arg + 1]
              /\ max_read' = Max(max_read, arg + 1)
              /\ arg' = arg + 2
         ELSE /\ output' = output
              /\ max_read' = Max(max_read, arg)
              /\ arg' = arg + 1
    /\ UNCHANGED <<argc, argv, sq_pc, compiles_only, debuginfo, filename, ARGS,
                   sq_ret, loaded, load_ok, executed, written, printed>>

\* case 'v'
OptV ==
    /\ AtOption("v")
    /\ printed' = printed \o <<"version">>
    /\ sq_ret' = _DONE
    /\ sq_pc' = "done"
    /\ max_read' = Max(max_read, arg)
    /\ UNCHANGED <<argc, argv, arg, compiles_only, output, debuginfo, filename,
                   ARGS, loaded, load_ok, executed, written>>

\* case 'h'
OptH ==
    /\ AtOption("h")
    /\ printed' = printed \o <<"version", "usage">>
    /\ sq_ret' = _DONE
    /\ sq_pc' = "done"
    /\ max_read' = Max(max_read, arg)
    /\ UNCHANGED <<argc, argv, arg, compiles_only, output, debuginfo, filename,
                   ARGS, loaded, load_ok, executed, written>>

\* default
OptUnknown ==
    /\ \E c \in {"x", "NUL"} : AtOption(c)
    /\ printed' = printed \o <<"version", "unknown prameter", "usage">>
    /\ sq_ret' = _DONE
    /\ sq_pc' = "done"
    /\ max_read' = Max(max_read, arg)
    /\ UNCHANGED <<argc, argv, arg, compiles_only, output, debuginfo, filename,
                   ARGS, loaded, load_ok, executed, written>>

\* while(arg < argc && !exitloop) fails, or the else break
LoopExit ==
    /\ sq_pc = "options"
    /\ \/ /\ ~(arg < argc)
          /\ max_read' = max_read
       \/ /\ arg < argc
          /\ CharAt(argv[arg], 0) # "-"
          /\ max_read' = Max(max_read, arg)
    /\ sq_pc' = "srcfile"
    /\ UNCHANGED <<argc, argv, arg, compiles_only, output, debuginfo, filename,
                   ARGS, sq_ret, loaded, load_ok, executed, written, printed>>

\* The arguments argv[from] .. argv[argc-1] in order.
ArgsFrom(from) == [k \in 1..(IF argc > from THEN argc - from ELSE 0) |-> argv[from + k - 1]]

\* Mutant: the ARGS loop starts at the script path itself.
ScriptArgs_withpath(a) == ArgsFrom(a)

\* for(i=arg;i<argc;i++) sq_arrayappend, after filename=argv[arg]; arg++
ScriptArgs(a) == ArgsFrom(a + 1)

\* Mutant: the -o value is ignored when the closure is written.
Outfile_default == OutCnut

\* char *outfile = "out.cnut"; if(output) outfile = output;
Outfile == IF output # NullStr THEN output ELSE OutCnut

\* "if this point is reached an error occured"
ErrorExit(has_string) ==
    IF has_string
      THEN /\ printed' = printed \o <<"Error">>
           /\ sq_ret' = _DONE
      ELSE /\ printed' = printed
           /\ sq_ret' = _INTERACTIVE

\* if(arg<argc) { filename=argv[arg]; ... } with compiles_only set
CompileFile ==
    /\ sq_pc = "srcfile"
    /\ arg < argc
    /\ compiles_only # 0
    /\ filename' = argv[arg]
    /\ max_read' = Max(max_read, IF argc > arg + 1 THEN argc - 1 ELSE arg)
    /\ ARGS' = ScriptArgs(arg)
    /\ arg' = arg + 1
    /\ loaded' = filename'
    /\ \E lok \in BOOLEAN, wok \in BOOLEAN, has_string \in BOOLEAN :
          /\ load_ok' = lok
          /\ written' = IF lok THEN Outfile ELSE written
          /\ IF lok /\ wok
               THEN sq_ret' = _DONE /\ printed' = printed
               ELSE ErrorExit(has_string)
    /\ sq_pc' = "done"
    /\ UNCHANGED <<argc, argv, compiles_only, output, debuginfo, executed>>

\* if(arg<argc) { filename=argv[arg]; ... } without compiles_only
RunFile ==
    /\ sq_pc = "srcfile"
    /\ arg < argc
    /\ compiles_only = 0
    /\ filename' = argv[arg]
    /\ max_read' = Max(max_read, IF argc > arg + 1 THEN argc - 1 ELSE arg)
    /\ ARGS' = ScriptArgs(arg)
    /\ arg' = arg + 1
    /\ executed' = filename'
    /\ \E ok \in BOOLEAN, has_string \in BOOLEAN :
          IF ok THEN sq_ret' = _DONE /\ printed' = printed
                ELSE ErrorExit(has_string)
    /\ sq_pc' = "done"
    /\ UNCHANGED <<argc, argv, compiles_only, output, debuginfo, loaded,
                   load_ok, written>>

\* arg >= argc after the options: return _INTERACTIVE
NoSrcFile ==
    /\ sq_pc = "srcfile"
    /\ ~(arg < argc)
    /\ sq_ret' = _INTERACTIVE
    /\ sq_pc' = "done"
    /\ UNCHANGED <<argc, argv, arg, compiles_only, output, debuginfo, filename,
                   ARGS, loaded, load_ok, executed, written, max_read, printed>>

\* ---- the command line as the usage text describes it: the reference the
\* ---- properties of getargs are stated against ----

TokC == <<"-", "c">>
TokO == <<"-", "o">>
TokD == <<"-", "d">>

StartsWithDash(i) == CharAt(argv[i], 0) = "-"

\* optpos[i]: argv[i] is reached as an option position, that is every
\* argument before it is a -c, a -d, or a -o with the argument it consumes.
optpos[i \in 1..(MaxArgs + 3)] ==
    IF i = 1 THEN TRUE
    ELSE \/ /\ optpos[i - 1]
            /\ i - 1 < argc
            /\ StartsWithDash(i - 1)
            /\ CharAt(argv[i - 1], 1) \in {"c", "d"}
         \/ /\ i > 2
            /\ optpos[i - 2]
            /\ i - 2 < argc
            /\ StartsWithDash(i - 2)
            /\ CharAt(argv[i - 2], 1) = "o"

\* argv[i] is taken by a -o as its value.
ConsumedByO(i) ==
    /\ i > 1
    /\ optpos[i - 1]
    /\ StartsWithDash(i - 1)
    /\ CharAt(argv[i - 1], 1) = "o"

PlainArgs == {i \in 1..(argc - 1) : ~StartsWithDash(i) /\ ~ConsumedByO(i)}

\* Index of the first argument that does not start with '-' and is not the
\* value of a -o; 0 when there is none.
FirstPlain ==
    IF PlainArgs = {} THEN 0
    ELSE CHOOSE i \in PlainArgs : \A j \in PlainArgs : i <= j

\* Positions of the -o options that are processed before position n.
OptionsO(n) == {j \in 1..(n - 1) : optpos[j] /\ StartsWithDash(j) /\ CharAt(argv[j], 1) = "o"}

\* The file the last -o before position n names, out.cnut when there is none.
NamedOutput(n) ==
    IF OptionsO(n) = {} THEN OutCnut
    ELSE LET lasto == CHOOSE j \in OptionsO(n) : \A k \in OptionsO(n) : k <= j
         IN argv[lasto + 1]

\* C6 (as stated): with -c among the arguments before the script path, in any
\* order with -o and -d, the script is compiled, not executed, and written to
\* the file -o names or to out.cnut.
C6_Original ==
    (/\ sq_pc = "done"
     /\ FirstPlain # 0
     /\ optpos[FirstPlain]
     /\ \E j \in 1..(FirstPlain - 1) : argv[j] = TokC)
    => /\ loaded = argv[FirstPlain]
       /\ executed = NullStr
       /\ (load_ok => written = NamedOutput(FirstPlain))

\* C6 (amended): when -c is processed as an option (it is not consumed as the
\* value of a -o) and a script path follows, the script is loaded for
\* compilation, never executed, and on a successful load written to the
\* argument the last -o consumed, or to out.cnut when there was no -o; a -o
\* that is the last argument leaves no script path: nothing is compiled and
\* getargs returns _INTERACTIVE.
C6_CompileOnly ==
    sq_pc = "done" =>
      /\ (/\ FirstPlain # 0
          /\ optpos[FirstPlain]
          /\ \E j \in 1..(FirstPlain - 1) : optpos[j] /\ argv[j] = TokC)
         => /\ loaded = argv[FirstPlain]
            /\ executed = NullStr
            /\ (load_ok => written = NamedOutput(FirstPlain))
            /\ (~load_ok => written = NullStr)
      /\ (argc > 1 /\ optpos[argc - 1] /\ argv[argc - 1] = TokO)
         => /\ loaded = NullStr
            /\ written = NullStr
            /\ executed = NullStr
            /\ sq_ret = _INTERACTIVE

C6_Witness ==
    /\ sq_pc = "done"
    /\ argc = 5
    /\ argv[1] = TokO /\ argv[2] = <<"a">> /\ argv[3] = TokC /\ argv[4] = <<"s">>
    /\ loaded = <<"s">>
    /\ load_ok
    /\ written = <<"a">>
    /\ executed = NullStr

rvars == <<tile, rt, straight_tunnel_bridge_entrance, road_ret, road_pc>>

DiagDirs == {"DIAGDIR_NE", "DIAGDIR_SE", "DIAGDIR_SW", "DIAGDIR_NW"}

RoadTypes == {"ROADTYPE_ROAD", "ROADTYPE_TRAM"}

\* RoadBits as the set of road pieces.
ROAD_NONE == {}
ROAD_NW == {"NW"}
ROAD_SW == {"SW"}
ROAD_SE == {"SE"}
ROAD_NE == {"NE"}
ROAD_X == ROAD_SW \cup ROAD_NE
ROAD_Y == ROAD_NW \cup ROAD_SE

ReverseDiagDir(d) ==
    CASE d = "DIAGDIR_NE" -> "DIAGDIR_SW"
      [] d = "DIAGDIR_SE" -> "DIAGDIR_NW"
      [] d = "DIAGDIR_SW" -> "DIAGDIR_NE"
      [] d = "DIAGDIR_NW" -> "DIAGDIR_SE"

DiagDirToAxis(d) == IF d \in {"DIAGDIR_NE", "DIAGDIR_SW"} THEN "AXIS_X" ELSE "AXIS_Y"

AxisToRoadBits(a) == IF a = "AXIS_X" THEN ROAD_X ELSE ROAD_Y

DiagDirToRoadBits(d) ==
    CASE d = "DIAGDIR_NE" -> ROAD_NE
      [] d = "DIAGDIR_SE" -> ROAD_SE
      [] d = "DIAGDIR_SW" -> ROAD_SW
      [] d = "DIAGDIR_NW" -> ROAD_NW

\* Tile accessors: the map array is a record of what they return.
HasTileRoadType(t, r) == r \in t.roadtypes
GetTileType(t) == t.type
GetTileSubtype(t) == t.subtype
GetRoadBits(t, r) == t.roadbits
GetCrossingRoadBits(t) == AxisToRoadBits(t.axis)
IsRoadDepot(t) == t.road
GetRoadDepotDirection(t) == t.dir
IsRoadStopTile(t) == t.road
IsDriveThroughStopTile(t) == t.drive_through
GetRoadStopDir(t) == t.dir
GetTunnelBridgeTransportType(t) == t.transport
GetTunnelBridgeDirection(t) == t.dir

NoTile == [type |-> "TT_GROUND", subtype |-> "none", roadtypes |-> {},
           roadbits |-> ROAD_NONE, axis |-> "AXIS_X", road |-> FALSE,
           drive_through |-> FALSE, dir |-> "DIAGDIR_NE",
           transport |-> "TRANSPORT_RAIL"]

\* The tiles of the map.
Tiles ==
    {NoTile}
    \cup {[NoTile EXCEPT !.type = "TT_ROAD", !.roadtypes = rts, !.roadbits = b] :
            rts \in (SUBSET RoadTypes) \ {{}},
            b \in {ROAD_X, ROAD_Y, ROAD_NW, ROAD_X \cup ROAD_Y}}
    \cup {[NoTile EXCEPT !.type = "TT_MISC", !.subtype = "TT_MISC_CROSSING",
                         !.roadtypes = rts, !.axis = a] :
            rts \in (SUBSET RoadTypes) \ {{}}, a \in {"AXIS_X", "AXIS_Y"}}
    \cup {[NoTile EXCEPT !.type = "TT_MISC", !.subtype = "TT_MISC_DEPOT",
                         !.roadtypes = rts, !.road = rd, !.dir = d] :
            rts \in SUBSET RoadTypes, rd \in BOOLEAN, d \in DiagDirs}
    \cup {[NoTile EXCEPT !.type = "TT_MISC", !.subtype = "TT_MISC_AQUEDUCT",
                         !.transport = "TRANSPORT_WATER", !.dir = d] :
            d \in DiagDirs}
    \cup {[NoTile EXCEPT !.type = "TT_STATION", !.roadtypes = rts, !.road = rd,
                         !.drive_through = dt, !.dir = d] :
            rts \in SUBSET RoadTypes, rd \in BOOLEAN, dt \in BOOLEAN, d \in DiagDirs}
    \cup {[NoTile EXCEPT !.type = "TT_TUNNELBRIDGE_TEMP", !.roadtypes = rts,
                         !.transport = tr, !.dir = d] :
            rts \in SUBSET RoadTypes,
            tr \in {"TRANSPORT_RAIL", "TRANSPORT_ROAD", "TRANSPORT_WATER"},
            d \in DiagDirs}

NOT_REACHED == {"NOT_REACHED"}

\* Mutant: the entrance piece is taken in the direction of the tunnel/bridge
\* instead of its reverse, and the straight bits from the other axis.
GetAnyRoadBits_noreverse(t, r, straight) ==
    IF ~HasTileRoadType(t, r) THEN ROAD_NONE
    ELSE IF GetTileType(t) = "TT_TUNNELBRIDGE_TEMP" /\ GetTunnelBridgeTransportType(t) = "TRANSPORT_ROAD"
      THEN IF straight
             THEN AxisToRoadBits(DiagDirToAxis(GetTunnelBridgeDirection(t)))
             ELSE DiagDirToRoadBits(GetTunnelBridgeDirection(t))
      ELSE ROAD_NONE

\* RoadBits GetAnyRoadBits(TileIndex tile, RoadType rt, bool straight_tunnel_bridge_entrance)
GetAnyRoadBits(t, r, straight) ==
    IF ~HasTileRoadType(t, r) THEN ROAD_NONE
    ELSE CASE GetTileType(t) = "TT_ROAD" -> GetRoadBits(t, r)
           [] GetTileType(t) = "TT_MISC" ->
                (CASE GetTileSubtype(t) = "TT_MISC_CROSSING" -> GetCrossingRoadBits(t)
                   [] GetTileSubtype(t) = "TT_MISC_DEPOT" ->
                        (IF IsRoadDepot(t)
                           THEN DiagDirToRoadBits(GetRoadDepotDirection(t))
                           ELSE ROAD_NONE)
                   [] OTHER -> NOT_REACHED)
           [] GetTileType(t) = "TT_STATION" ->
                (IF ~IsRoadStopTile(t) THEN ROAD_NONE
                 ELSE IF IsDriveThroughStopTile(t)
                   THEN (IF GetRoadStopDir(t) = "DIAGDIR_NE" THEN ROAD_X ELSE ROAD_Y)
                   ELSE DiagDirToRoadBits(GetRoadStopDir(t)))
           [] GetTileType(t) = "TT_TUNNELBRIDGE_TEMP" ->
                (IF GetTunnelBridgeTransportType(t) # "TRANSPORT_ROAD" THEN ROAD_NONE
                 ELSE IF straight
                   THEN AxisToRoadBits(DiagDirToAxis(GetTunnelBridgeDirection(t)))
                   ELSE DiagDirToRoadBits(ReverseDiagDir(GetTunnelBridgeDirection(t))))
           [] OTHER -> ROAD_NONE

RoadIdle ==
    /\ tile = NoTile /\ rt = "ROADTYPE_ROAD"
    /\ straight_tunnel_bridge_entrance = FALSE
    /\ road_ret = ROAD_NONE /\ road_pc = "idle"

RoadInit ==
    /\ tile \in Tiles
    /\ rt \in RoadTypes
    /\ straight_tunnel_bridge_entrance \in BOOLEAN
    /\ road_ret = ROAD_NONE
    /\ road_pc = "call"

\* A caller asks for the road bits of the tile.
CallGetAnyRoadBits ==
    /\ road_pc = "call"
    /\ road_ret' = GetAnyRoadBits(tile, rt, straight_tunnel_bridge_entrance)
    /\ road_pc' = "ret"
    /\ UNCHANGED <<tile, rt, straight_tunnel_bridge_entrance>>

\* The caller, holding the result, asks again with the flag flipped.
AskOtherFlag ==
    /\ road_pc = "ret"
    /\ straight_tunnel_bridge_entrance' = ~straight_tunnel_bridge_entrance
    /\ road_pc' = "call"
    /\ UNCHANGED <<tile, rt, road_ret>>

\* C5: on a road tunnel entrance / bridge ramp that has the road type the
\* result is ROAD_X or ROAD_Y by the axis of the direction when the straight
\* flag is set, else the single piece on the side opposite to the direction;
\* on a tunnel/bridge tile that is not for road the result is ROAD_NONE.
C5_TunnelBridgeRoadBits ==
    (road_pc = "ret" /\ tile.type = "TT_TUNNELBRIDGE_TEMP") =>
      /\ (tile.transport = "TRANSPORT_ROAD" /\ rt \in tile.roadtypes) =>
           IF straight_tunnel_bridge_entrance
             THEN road_ret = (IF tile.dir \in {"DIAGDIR_NE", "DIAGDIR_SW"}
                                THEN {"SW", "NE"} ELSE {"NW", "SE"})
             ELSE /\ Cardinality(road_ret) = 1
                  /\ road_ret = (CASE tile.dir = "DIAGDIR_NE" -> {"SW"}
                                   [] tile.dir = "DIAGDIR_SE" -> {"NW"}
                                   [] tile.dir = "DIAGDIR_SW" -> {"NE"}
                                   [] tile.dir = "DIAGDIR_NW" -> {"SE"})
      /\ tile.transport # "TRANSPORT_ROAD" => road_ret = ROAD_NONE

C5_Witness ==
    /\ road_pc = "ret"
    /\ tile.type = "TT_TUNNELBRIDGE_TEMP"
    /\ tile.transport = "TRANSPORT_ROAD"
    /\ rt \in tile.roadtypes
    /\ tile.dir = "DIAGDIR_SE"
    /\ ~straight_tunnel_bridge_entrance
    /\ road_ret = {"NW"}

\* ------------------------------------------------------------------------
\* Blitter::AllocateSprite
\* ------------------------------------------------------------------------

avars == <<sprite, extra, sizeofT, alloc_calls, heap, sprite_ret, sprite_pc>>

MaxSpriteDim == 2
MaxOffs == 1
MaxExtra == 2

\* sizeof(T) of the sprite types the blitters allocate.
SpriteSizes == {8, 12}

SpriteIdle ==
    /\ sprite = [height |-> 1, width |-> 1, x_offs |-> 0, y_offs |-> 0]
    /\ extra = 0 /\ sizeofT = 8 /\ alloc_calls = <<>> /\ heap = <<>>
    /\ sprite_ret = 0 /\ sprite_pc = "idle"

SpriteInit ==
    /\ sprite \in [height : 1..MaxSpriteDim, width : 1..MaxSpriteDim,
                   x_offs : (-MaxOffs)..MaxOffs, y_offs : (-MaxOffs)..MaxOffs]
    /\ extra \in 0..MaxExtra
    /\ sizeofT \in SpriteSizes
    /\ alloc_calls = <<>>
    /\ heap = <<>>
    /\ sprite_ret = 0
    /\ sprite_pc = "call"

\* Mutant: the extra bytes are not requested and the offsets are swapped.
AllocateSprite_swapped ==
    /\ sprite_pc = "call"
    /\ alloc_calls' = Append(alloc_calls, sizeofT)
    /\ sprite_ret' = Len(heap) + 1
    /\ heap' = Append(heap, [size   |-> sizeofT,
                             height |-> sprite.height,
                             width  |-> sprite.width,
                             x_offs |-> sprite.y_offs,
                             y_offs |-> sprite.x_offs])
    /\ sprite_pc' = "done"
    /\ UNCHANGED <<sprite, extra, sizeofT>>

\* template <typename T> static T *AllocateSprite (sprite, allocator, extra)
\* The allocator hands out a fresh block of the requested size; the four
\* fields are then stored into it.
AllocateSprite ==
    /\ sprite_pc = "call"
    /\ alloc_calls' = Append(alloc_calls, sizeofT + extra)
    /\ sprite_ret' = Len(heap) + 1
    /\ heap' = Append(heap, [size   |-> sizeofT + extra,
                             height |-> sprite.height,
                             width  |-> sprite.width,
                             x_offs |-> sprite.x_offs,
                             y_offs |-> sprite.y_offs])
    /\ sprite_pc' = "done"
    /\ UNCHANGED <<sprite, extra, sizeofT>>

\* C4: AllocateSprite calls the allocator exactly once, for sizeof(T) + extra
\* bytes, and returns that block with height, width, x_offs and y_offs of the
\* loader sprite; nothing else is allocated.
C4_AllocateSprite ==
    sprite_pc = "done" =>
      /\ Len(alloc_calls) = 1
      /\ alloc_calls[1] = sizeofT + extra
      /\ Len(heap) = 1
      /\ sprite_ret = 1
      /\ heap[sprite_ret].size = alloc_calls[1]
      /\ heap[sprite_ret].height = sprite.height
      /\ heap[sprite_ret].width = sprite.width
      /\ heap[sprite_ret].x_offs = sprite.x_offs
      /\ heap[sprite_ret].y_offs = sprite.y_offs

C4_Witness ==
    /\ sprite_pc = "done"
    /\ extra = 2
    /\ sizeofT = 8
    /\ alloc_calls = <<10>>
    /\ sprite.x_offs = -1 /\ sprite.y_offs = 1
    /\ sprite.height = 2 /\ sprite.width = 1
    /\ heap[sprite_ret].x_offs = -1 /\ heap[sprite_ret].y_offs = 1

\* ------------------------------------------------------------------------
\* Airport chunk handlers
\* ------------------------------------------------------------------------

cvars == <<_airport_mngr, _airporttile_mngr, ch, visited, dumper, chunk_pc>>

MaxMapping == 2

\* EntityIDMapping entries: (grfid, entity_id) of small ranges.
GrfIds == {0, 7}
EntityIds == {0, 1}
Mappings == [1..MaxMapping -> [grfid : GrfIds, entity_id : EntityIds]]

\* void Save_NewGRFMapping(SaveDumper *dumper, const OverrideManagerBase &mapping):
\* one record per mapping entry, in index order.
Save_NewGRFMapping(d, mapping) ==
    [i \in 1..Len(mapping) |-> <<i - 1, mapping[i].grfid, mapping[i].entity_id>>]

Save_APID(d) == Save_NewGRFMapping(d, _airport_mngr)

Save_ATID(d) == Save_NewGRFMapping(d, _airporttile_mngr)

\* Mutant: the terminal marker sits on the first entry.
_airport_chunk_handlers_lastfirst ==
    << [id |-> "ATID", save_proc |-> "Save_ATID", load_proc |-> "Load_ATID",
        flags |-> {"CH_ARRAY", "CH_LAST"}],
       [id |-> "APID", save_proc |-> "Save_APID", load_proc |-> "Load_APID",
        flags |-> {"CH_ARRAY"}] >>

\* extern const ChunkHandler _airport_chunk_handlers[]
_airport_chunk_handlers ==
    << [id |-> "ATID", save_proc |-> "Save_ATID", load_proc |-> "Load_ATID",
        flags |-> {"CH_ARRAY"}],
       [id |-> "APID", save_proc |-> "Save_APID", load_proc |-> "Load_APID",
        flags |-> {"CH_ARRAY", "CH_LAST"}] >>

\* flags & CH_TYPE_MASK
ChunkType(h) == h.flags \ {"CH_LAST"}

ChunkIdle ==
    /\ _airport_mngr = <<>> /\ _airporttile_mngr = <<>>
    /\ ch = 0 /\ visited = <<>> /\ dumper = <<>> /\ chunk_pc = "idle"

ChunkInit ==
    /\ _airport_mngr \in Mappings
    /\ _airporttile_mngr \in Mappings
    /\ ch = 1
    /\ visited = <<>>
    /\ dumper = <<>>
    /\ chunk_pc = "walk"

\* One step of the walk over the table: the handler at ch is called and the
\* walk ends when it carries CH_LAST, else moves to the next entry. A walk
\* that has left the table reads past the end of the array.
SaveChunk ==
    /\ chunk_pc = "walk"
    /\ IF ch \in DOMAIN _airport_chunk_handlers
         THEN LET h == _airport_chunk_handlers[ch]
                  data == IF h.save_proc = "Save_ATID" THEN Save_ATID(dumper)
                          ELSE Save_APID(dumper)
              IN /\ visited' = Append(visited, h.id)
                 /\ dumper' = Append(dumper, [id |-> h.id, type |-> ChunkType(h),
                                              data |-> data])
                 /\ IF "CH_LAST" \in h.flags
                      THEN chunk_pc' = "done" /\ ch' = ch
                      ELSE chunk_pc' = "walk" /\ ch' = ch + 1
         ELSE /\ chunk_pc' = "overrun"
              /\ UNCHANGED <<ch, visited, dumper>>
    /\ UNCHANGED <<_airport_mngr, _airporttile_mngr>>

\* C8: every entry of the table is a CH_ARRAY chunk, CH_LAST is on exactly the
\* last entry, and the walk that stops at the first CH_LAST calls every
\* handler exactly once.
C8_ChunkTable ==
    /\ chunk_pc # "overrun"
    /\ chunk_pc = "done" =>
         /\ visited = <<"ATID", "APID">>
         /\ Len(dumper) = 2
         /\ \A i \in 1..2 : dumper[i].type = {"CH_ARRAY"}
         /\ \A i \in DOMAIN _airport_chunk_handlers :
              "CH_LAST" \in _airport_chunk_handlers[i].flags
                  <=> i = Len(_airport_chunk_handlers)

C8_Witness ==
    /\ chunk_pc = "done"
    /\ visited = <<"ATID", "APID">>
    /\ dumper[1].id = "ATID" /\ dumper[2].id = "APID"
    /\ dumper[1].data # dumper[2].data

\* ------------------------------------------------------------------------
\* Blitter::Surface
\* ------------------------------------------------------------------------

fvars == <<surface, created, pixels, last>>

\* Largest pixel buffer, in pixels.
MaxCells == 4

Ptrs == {"screen", "offscreen"}

Colours == {0, 1}

NoSurface == [ptr |-> "none", width |-> 0, height |-> 0, pitch |-> 0]

\* Mutant: the initialiser list mixes up width and pitch.
Surface_mixed(ptr, width, height, pitch) ==
    [ptr |-> ptr, width |-> pitch, height |-> height, pitch |-> width]

\* Surface (void *ptr, uint width, uint height, uint pitch)
\*     : ptr(ptr), width(width), height(height), pitch(pitch)
Surface(ptr, width, height, pitch) ==
    [ptr |-> ptr, width |-> width, height |-> height, pitch |-> pitch]

\* virtual Surface *create (void *ptr, uint width, uint height, uint pitch)
create(ptr, width, height, pitch) == Surface(ptr, width, height, pitch)

Cells == {<<x, y>> : x \in 0..(surface.width - 1), y \in 0..(surface.height - 1)}

Abs(n) == IF n < 0 THEN -n ELSE n

\* The members are const: an operation changes the pixels and nothing else.
SurfaceOp(op, ret, px) ==
    /\ surface # NoSurface
    /\ last' = [op |-> op, ret |-> ret]
    /\ pixels' = px
    /\ UNCHANGED <<surface, created>>

SurfaceIdle ==
    /\ surface = NoSurface /\ created = NoSurface
    /\ pixels = <<>> /\ last = [op |-> "none", ret |-> <<>>]

SurfaceInit == SurfaceIdle

Create ==
    /\ surface = NoSurface
    /\ \E ptr \in Ptrs, width \in 1..MaxCells, height \in 1..MaxCells, pad \in 0..1 :
          /\ width * height <= MaxCells
          /\ created' = [ptr |-> ptr, width |-> width, height |-> height,
                         pitch |-> width + pad]
          /\ surface' = create(ptr, width, height, width + pad)
          /\ pixels' = [c \in {<<x, y>> : x \in 0..(width - 1), y \in 0..(height - 1)} |-> 0]
    /\ last' = [op |-> "create", ret |-> <<>>]

\* void *move (void *video, int x, int y)
Move ==
    \E c \in Cells :
        /\ last.op # "move"
        /\ SurfaceOp("move", <<c[1] + c[2] * surface.pitch>>, pixels)

\* void set_pixel (void *video, int x, int y, uint8 colour)
SetPixel ==
    \E c \in Cells, colour \in Colours :
        SurfaceOp("set_pixel", <<>>, [pixels EXCEPT ![c] = colour])

\* Pixels of the line from a to b.
LinePoints(a, b) ==
    LET dx == b[1] - a[1]
        dy == b[2] - a[2]
        n == IF Abs(dx) > Abs(dy) THEN Abs(dx) ELSE Abs(dy)
    IN IF n = 0 THEN {a}
       ELSE {<<a[1] + ((2 * k * dx + n) \div (2 * n)),
               a[2] + ((2 * k * dy + n) \div (2 * n))>> : k \in 0..n}

\* void draw_line (void *video, int x, int y, int x2, int y2, int screen_width,
\*                 int screen_height, uint8 colour, int width, int dash)
DrawLine ==
    \E a \in Cells, b \in Cells :
    \E colour \in Colours :
        /\ a[2] < b[2] \/ (a[2] = b[2] /\ a[1] < b[1])
        /\ SurfaceOp("draw_line", <<>>,
                  [c \in Cells |-> IF c \in LinePoints(a, b) THEN colour ELSE pixels[c]])

Rect(c, w, h) == {d \in Cells : /\ d[1] \in c[1]..(c[1] + w - 1)
                                /\ d[2] \in c[2]..(c[2] + h - 1)}

\* void draw_rect (void *video, int width, int height, uint8 colour)
DrawRect ==
    \E c \in Cells, colour \in Colours :
    \E w \in 1..(surface.width - c[1]), h \in 1..(surface.height - c[2]) :
        SurfaceOp("draw_rect", <<>>,
                  [d \in Cells |-> IF d \in Rect(c, w, h) THEN colour ELSE pixels[d]])

\* void recolour_rect (void *video, int width, int height, PaletteID pal)
RecolourRect ==
    \E c \in Cells :
    \E w \in 1..(surface.width - c[1]), h \in 1..(surface.height - c[2]) :
        SurfaceOp("recolour_rect", <<>>,
                  [d \in Cells |-> IF d \in Rect(c, w, h) THEN 1 - pixels[d] ELSE pixels[d]])

\* void scroll (void *video, int &left, int &top, int &width, int &height,
\*              int scroll_x, int scroll_y)
\* left, top, width and height are the caller's variables, handed back adjusted.
Scroll ==
    \E scroll_x \in -1..1, scroll_y \in -1..1 :
        LET left == IF scroll_x > 0 THEN scroll_x ELSE 0
            top == IF scroll_y > 0 THEN scroll_y ELSE 0
            width == surface.width - Abs(scroll_x)
            height == surface.height - Abs(scroll_y)
        IN /\ width > 0 /\ height > 0
           /\ SurfaceOp("scroll", <<left, top, width, height>>,
                  [d \in Cells |->
                      IF /\ d[1] \in left..(left + width - 1)
                         /\ d[2] \in top..(top + height - 1)
                        THEN pixels[<<d[1] - scroll_x, d[2] - scroll_y>>]
                        ELSE pixels[d]])

\* bool palette_animate (const Palette &palette)
PaletteAnimate ==
    /\ last.op # "palette_animate"
    /\ SurfaceOp("palette_animate", <<0>>, pixels)

Row(y, x, w) == [k \in 1..w |-> pixels[<<x + k - 1, y>>]]

\* void copy (void *dst, int x, int y, int width, int height)
Copy ==
    \E c \in Cells : \E w \in 1..(surface.width - c[1]) :
        SurfaceOp("copy", Row(c[2], c[1], w), pixels)

\* void paste (const void *src, int x, int y, int width, int height)
Paste ==
    /\ last.op = "copy"
    /\ \E c \in Cells :
          /\ c[1] + Len(last.ret) <= surface.width
          /\ SurfaceOp("paste", <<>>,
                 [d \in Cells |->
                     IF d[2] = c[2] /\ d[1] \in c[1]..(c[1] + Len(last.ret) - 1)
                       THEN last.ret[d[1] - c[1] + 1] ELSE pixels[d]])

\* void export_lines (void *dst, uint dst_pitch, uint y, uint height)
ExportLines ==
    \E y \in 0..(surface.height - 1) :
        SurfaceOp("export_lines", Row(y, 0, surface.width), pixels)

\* C3: ptr, width, height and pitch of a Surface are the arguments of create
\* and stay so through every surface operation.
C3_SurfaceFieldsFixed ==
    surface # NoSurface =>
      /\ surface.ptr = created.ptr
      /\ surface.width = created.width
      /\ surface.height = created.height
      /\ surface.pitch = created.pitch

C3_Witness ==
    /\ surface # NoSurface
    /\ created.pitch = created.width + 1
    /\ created.width = 2 /\ created.height = 1
    /\ last.op = "scroll"
    /\ \E c \in DOMAIN pixels : pixels[c] = 1

BlitterIdle ==
    /\ registered = {Dummy} /\ current_blitter = NULL /\ autodetected = FALSE
    /\ live = {} /\ select_ret = NULL /\ select_name = "" /\ nselect = 0
    /\ get_ret = NULL

vars == <<bvars, qvars, rvars, avars, cvars, fvars>>

Init == BlitterInit /\ SqIdle /\ RoadIdle /\ SpriteIdle /\ ChunkIdle /\ SurfaceIdle

Next ==
    \/ Select /\ UNCHANGED <<qvars, rvars, avars, cvars, fvars>>
    \/ Get /\ UNCHANGED <<qvars, rvars, avars, cvars, fvars>>

Spec == Init /\ [][Next]_vars

SqSpecInit == SqInit /\ BlitterIdle /\ RoadIdle /\ SpriteIdle /\ ChunkIdle /\ SurfaceIdle

SqSpecNext ==
    \/ Start /\ UNCHANGED <<bvars, rvars, avars, cvars, fvars>>
    \/ NoArgs /\ UNCHANGED <<bvars, rvars, avars, cvars, fvars>>
    \/ OptD /\ UNCHANGED <<bvars, rvars, avars, cvars, fvars>>
    \/ OptC /\ UNCHANGED <<bvars, rvars, avars, cvars, fvars>>
    \/ OptO /\ UNCHANGED <<bvars, rvars, avars, cvars, fvars>>
    \/ OptV /\ UNCHANGED <<bvars, rvars, avars, cvars, fvars>>
    \/ OptH /\ UNCHANGED <<bvars, rvars, avars, cvars, fvars>>
    \/ OptUnknown /\ UNCHANGED <<bvars, rvars, avars, cvars, fvars>>
    \/ LoopExit /\ UNCHANGED <<bvars, rvars, avars, cvars, fvars>>
    \/ CompileFile /\ UNCHANGED <<bvars, rvars, avars, cvars, fvars>>
    \/ RunFile /\ UNCHANGED <<bvars, rvars, avars, cvars, fvars>>
    \/ NoSrcFile /\ UNCHANGED <<bvars, rvars, avars, cvars, fvars>>

SqSpec == SqSpecInit /\ [][SqSpecNext]_vars

RoadSpecInit == RoadInit /\ BlitterIdle /\ SqIdle /\ SpriteIdle /\ ChunkIdle /\ SurfaceIdle

RoadSpecNext ==
    \/ CallGetAnyRoadBits /\ UNCHANGED <<bvars, qvars, avars, cvars, fvars>>
    \/ AskOtherFlag /\ UNCHANGED <<bvars, qvars, avars, cvars, fvars>>

RoadSpec == RoadSpecInit /\ [][RoadSpecNext]_vars

SpriteSpecInit == SpriteInit /\ BlitterIdle /\ SqIdle /\ RoadIdle /\ ChunkIdle /\ SurfaceIdle

SpriteSpecNext ==
    \/ AllocateSprite /\ UNCHANGED <<bvars, qvars, rvars, cvars, fvars>>

SpriteSpec == SpriteSpecInit /\ [][SpriteSpecNext]_vars

ChunkSpecInit == ChunkInit /\ BlitterIdle /\ SqIdle /\ RoadIdle /\ SpriteIdle /\ SurfaceIdle

ChunkSpecNext ==
    \/ SaveChunk /\ UNCHANGED <<bvars, qvars, rvars, avars, fvars>>

ChunkSpec == ChunkSpecInit /\ [][ChunkSpecNext]_vars

SurfaceSpecInit == SurfaceInit /\ BlitterIdle /\ SqIdle /\ RoadIdle /\ SpriteIdle /\ ChunkIdle

SurfaceSpecNext ==
    \/ Create /\ UNCHANGED <<bvars, qvars, rvars, avars, cvars>>
    \/ Move /\ UNCHANGED <<bvars, qvars, rvars, avars, cvars>>
    \/ SetPixel /\ UNCHANGED <<bvars, qvars, rvars, avars, cvars>>
    \/ DrawLine /\ UNCHANGED <<bvars, qvars, rvars, avars, cvars>>
    \/ DrawRect /\ UNCHANGED <<bvars, qvars, rvars, avars, cvars>>
    \/ RecolourRect /\ UNCHANGED <<bvars, qvars, rvars, avars, cvars>>
    \/ Scroll /\ UNCHANGED <<bvars, qvars, rvars, avars, cvars>>
    \/ PaletteAnimate /\ UNCHANGED <<bvars, qvars, rvars, avars, cvars>>
    \/ Copy /\ UNCHANGED <<bvars, qvars, rvars, avars, cvars>>
    \/ Paste /\ UNCHANGED <<bvars, qvars, rvars, avars, cvars>>
    \/ ExportLines /\ UNCHANGED <<bvars, qvars, rvars, avars, cvars>>

SurfaceSpec == SurfaceSpecInit /\ [][SurfaceSpecNext]_vars

\* C1: select with a name of no registered blitter returns a usable blitter
\* (the automatic choice, the dummy as last resort) and leaves autodetected set.
C1_SelectUnknownFallsBack ==
    (nselect > 0 /\ select_name \notin registered) =>
        /\ select_ret # NULL
        /\ select_ret.name \in registered
        /\ select_ret.name = autodetect(registered)
        /\ (registered = {Dummy} => select_ret.name = Dummy)
        /\ autodetected = TRUE

C1_Witness ==
    /\ nselect > 1
    /\ select_name = "nonexistent-name"
    /\ select_ret # NULL
    /\ autodetected = TRUE
    /\ select_ret.id = nselect

\* C2: after any select exactly one blitter is active and get returns the one
\* the most recent select returned; get is null only before the first select.
C2_GetIsLastSelected ==
    /\ (nselect > 0 => /\ Cardinality(live) = 1
                       /\ get = select_ret
                       /\ get \in live
                       /\ get # NULL)
    /\ (get = NULL => nselect = 0)

C2_Witness ==
    /\ nselect = 2
    /\ get_ret # NULL
    /\ get_ret = select_ret
    /\ get_ret.id = 2
====
